---- MODULE Spec2Model ----
(***************************************************************************)
(* Model of src/main.py: the manifest-driven change detector               *)
(* (compare_files), the initial backup (initial_backup) and the per-file   *)
(* transform pipeline add_backup = copy -> compress -> split -> encrypt.   *)
(*                                                                         *)
(* Sizes are byte counts.  TLC integers are 32 bit wide, so the unit GiB   *)
(* (1024*1024*1024 in the source) is scaled to 1024; the order             *)
(* 120 < 1 GiB < 4 GiB of the thresholds is kept.                          *)
(*                                                                         *)
(* A path is a sequence of name parts: <<"a","xz","enc">> is a.xz.enc.     *)
(* The content of a file on disk is a record                               *)
(*   [data, layers, lens, part, kdf]:                                      *)
(*   data   - identity of the plain bytes that undoing every layer yields  *)
(*   layers - the transformations applied, innermost first                 *)
(*   lens   - the size before any layer and after each layer               *)
(*   part   - <<i, n>> for chunk i of n, <<0, n>> for a split manifest     *)
(*            listing n chunks, <<0, 0>> otherwise                         *)
(*   kdf    - the iteration count stored in an envelope, 0 outside one     *)
(*                                                                         *)
(* Specifications:                                                         *)
(*   Spec          - runs of main() over two job rows, with edits of the   *)
(*                   source trees between runs                             *)
(*   SpecAddBackup - add_backup from compress_current_file on, for one     *)
(*                   copied file, over more names and sizes                *)
(*   SpecWalked    - the loop of initial_backup over a walked tree with    *)
(*                   directories; paths are sequences of characters        *)
(*   SpecCipher    - encrypt_current_file and decrypt_current_file with    *)
(*                   the envelope field by field; file contents are        *)
(*                   [bytes] records and envelopes                         *)
(*   SpecCalibrate - get_optimal_iterations turn by turn over timer        *)
(*                   readings, and the key derivation that uses its count  *)
(*   SpecHash      - a call of calculate_hash for a path that is there or  *)
(*                   is not and an algorithm hashlib has or has not        *)
(*   SpecBatch     - the loop of initial_backup over files whose names     *)
(*                   differ in a suffix the stages append; the one thread  *)
(*                   takes every step it can take                          *)
(***************************************************************************)
EXTENDS Integers, Sequences, FiniteSets, TLC

\* ---------------------------------------------------------------- bounds
MaxRuns == 2          \* invocations of main()
MaxEdits == 1         \* edits of a source tree between two runs

\* ------------------------------------------------------ program constants
GiB == 1024                    \* scaled, see above
MaxAttempts == 4               \* range(4)
MinCompressLen == 120
VerifyLimit == 1 * GiB         \* 1 * 1024 * 1024 * 1024
SplitLimit == 4 * GiB          \* 4 * 1024 * 1024 * 1024
file_not_compress == {"jpeg", "jpg", "gif", "png", "bmp", "tiff", "tif", "avi",
                      "mp4", "mpeg", "mp3", "wav", "flac", "mkv", "pdf",
                      "zip", "rar", "7z", "gz", "tar", "iso"}

\* ------------------------------------------------------------ environment
\* The rows of config/backup-operations.csv: each names a source root; the
\* destination root of row r is dst[r].
Jobs == <<"r1", "r2">>
Roots == {"r1", "r2"}

\* The files os.walk yields for a root, in walk order.
WalkOrder == << <<"a">>, <<"b", "jpg">> >>
Names(r) == IF r = "r1" THEN {<<"a">>, <<"b", "jpg">>} ELSE {<<"a">>}

\* Sizes a source file may have.
FileLens(r, n) ==
    IF r = "r2" THEN {200}
    ELSE IF n = <<"a">> THEN {5, 200, 2 * GiB} ELSE {200, 5 * GiB}

BadData == 0          \* bytes that differ from every source file's bytes
ManData == 99         \* the text of a split manifest
DataOf(r, n) == (IF r = "r1" THEN 10 ELSE 20) + Len(n)

manifest_file == <<"hazbackup", "manifest">>

\* ------------------------------------------------------------------ state
VARIABLES
    srcExists,     \* [Roots -> BOOLEAN]: the source root exists
    srcFiles,      \* [Roots -> [names -> [data, len, mtime]]]
    manifestExists,\* [Roots -> BOOLEAN]: hazbackup.manifest exists
    manifest,      \* [Roots -> Seq(FileRecord)]: its JSON array
    dstExists,     \* [Roots -> BOOLEAN]: the destination root exists
    dst,           \* [Roots -> [paths -> content]]: files under it
    pc,            \* position of the program
    run,           \* number of invocations of main() so far
    row,           \* index of the job row compare_files is at
    file_list,     \* initial_backup: the walked files
    idx,           \* initial_backup: position in file_list
    file_info,     \* initial_backup: record of the current file
    cwf,           \* add_backup: current_working_file
    attempt,       \* copy/compress: value of the loop variable
    enc_list,      \* prepare_files_for_encryption: files still to encrypt
    iterations_file, \* config/iterations.json: <<>> or <<iterations>>
    diff_files,    \* [Roots -> Seq(FileRecord)]: last diff of compare_files
    scanned,       \* [Roots -> Seq(FileRecord)]: its source_files_info
    edits,         \* number of edits of the source trees so far
    hist,          \* what has happened so far: <<event, root, file, run>>
    test_iterations, \* get_optimal_iterations: the trial iteration count
    elapsed_time_ms, \* get_optimal_iterations: the last timer reading
    algorithm,     \* calculate_hash: the algorithm it is called with
    copied_hash    \* what the call of calculate_hash gave its caller

vars == <<srcExists, srcFiles, manifestExists, manifest, dstExists, dst, pc,
          run, row, file_list, idx, file_info, cwf, attempt, enc_list,
          iterations_file, diff_files, scanned, edits, hist, test_iterations,
          elapsed_time_ms, algorithm, copied_hash>>

\* The locals of get_optimal_iterations and of a call of calculate_hash,
\* which the steps of SpecCalibrate and SpecHash change.
callVars == <<test_iterations, elapsed_time_ms, algorithm, copied_hash>>
srcVars == <<srcExists, srcFiles>>
loopVars == <<row, file_list, idx, file_info>>
diffVars == <<diff_files, scanned, iterations_file>>

\* ---------------------------------------------------------------- helpers
Raw(d, n) ==
    [data |-> d, layers |-> <<>>, lens |-> <<n>>, part |-> <<0, 0>>, kdf |-> 0]
Size(c) == c.lens[Len(c.lens)]
Front(s) == SubSeq(s, 1, Len(s) - 1)
Last(s) == s[Len(s)]
Remove(f, p) == [q \in DOMAIN f \ {p} |-> f[q]]
Put(f, p, c) == [q \in DOMAIN f \cup {p} |-> IF q = p THEN c ELSE f[q]]
SrcBytes(r, n) == Raw(srcFiles[r][n].data, srcFiles[r][n].len)
NoInfo == [Hash |-> <<"md5", Raw(BadData, 0)>>, RelativePath |-> <<>>,
           LastModificationTime |-> 0, Length |-> 0, LastTouchTime |-> 0]

\* hashlib md5 over a file's bytes: a digest that tells different bytes apart.
EmptyDigest == <<"md5", Raw(BadData, 0)>>
Digest(c) == IF Size(c) = 0 THEN EmptyDigest ELSE <<"md5", c>>

\* calculate_hash: on any error (a missing file) the except branch returns the
\* digest of what was read so far, the digest of no bytes.
calculate_hash(fs, p) == IF p \in DOMAIN fs THEN Digest(fs[p]) ELSE EmptyDigest

\* ------------------------------------------------ get_file_info: RelativePath
\* str.replace(old, ""): the occurrences of old are dropped, left to right.
RECURSIVE replace(_, _)
replace(s, old) ==
    IF Len(s) < Len(old) THEN s
    ELSE IF SubSeq(s, 1, Len(old)) = old
         THEN replace(SubSeq(s, Len(old) + 1, Len(s)), old)
         ELSE <<Head(s)>> \o replace(Tail(s), old)

\* str.split("/"): the segments between the separators.
RECURSIVE split(_, _)
split(s, acc) ==
    IF s = <<>> THEN <<acc>>
    ELSE IF Head(s) = "/" THEN <<acc>> \o split(Tail(s), <<>>)
         ELSE split(Tail(s), Append(acc, Head(s)))

\* "/".join(comps)
RECURSIVE join(_)
join(comps) ==
    IF comps = <<>> THEN <<>>
    ELSE IF Len(comps) = 1 THEN comps[1]
         ELSE comps[1] \o <<"/">> \o join(Tail(comps))

\* The loop of posixpath.normpath over the segments of a path that starts
\* with no "/": empty segments and "." are dropped, ".." takes the segment
\* before it away unless there is none or it is ".." too.
RECURSIVE new_comps(_, _)
new_comps(comps, acc) ==
    IF comps = <<>> THEN acc
    ELSE LET comp == Head(comps)
         IN IF comp = <<>> \/ comp = <<".">>
            THEN new_comps(Tail(comps), acc)
            ELSE IF \/ comp # <<".", ".">>
                    \/ acc = <<>>
                    \/ acc[Len(acc)] = <<".", ".">>
                 THEN new_comps(Tail(comps), Append(acc, comp))
                 ELSE new_comps(Tail(comps), SubSeq(acc, 1, Len(acc) - 1))

normpath(path) ==
    IF join(new_comps(split(path, <<>>), <<>>)) = <<>> THEN <<".">>
    ELSE join(new_comps(split(path, <<>>), <<>>))

\* Lines 126-129 for a file whose path below the source root is rel, given as
\* the sequence of its characters.  The names of Names(r) are sequences of
\* name parts that hold no "/" and no ".": the lines give them back.
relative_path(rel) ==
    normpath(<<".", "/">>
                 \o replace(replace(normpath(rel), <<".", ".", "\\">>),
                            <<".", ".", "/">>))

\* get_file_info for source file n of root r, scanned at time now.
get_file_info(r, n, now) ==
    [Hash |-> Digest(SrcBytes(r, n)),
     RelativePath |-> relative_path(n),
     LastModificationTime |-> srcFiles[r][n].mtime,
     Length |-> srcFiles[r][n].len,
     LastTouchTime |-> now]

\* os.walk over root r: its files, and the manifest when it is there.
os_walk(r) ==
    SelectSeq(WalkOrder, LAMBDA n : n \in DOMAIN srcFiles[r])
        \o (IF manifestExists[r] THEN <<manifest_file>> ELSE <<>>)

collect_file_paths(r, exclude_file) ==
    SelectSeq(os_walk(r), LAMBDA n : n # exclude_file)

\* ------------------------------------------------------------- compare_files
\* {file_info['RelativePath']: file_info for file_info in manifest_data_list}:
\* a later record of the same path replaces an earlier one.
manifest_data(list) ==
    [p \in {list[i].RelativePath : i \in DOMAIN list} |->
        list[CHOOSE i \in DOMAIN list :
                /\ list[i].RelativePath = p
                /\ \A j \in DOMAIN list : list[j].RelativePath = p => j <= i]]

remove_last_touch_time(info) ==
    [Hash |-> info.Hash, RelativePath |-> info.RelativePath,
     LastModificationTime |-> info.LastModificationTime, Length |-> info.Length]

\* records_differ as it would be if line 211 compared the two records without
\* LastTouchTime as wholes.
records_differ_whole(manifest_file_info, info) ==
    remove_last_touch_time(manifest_file_info) # remove_last_touch_time(info)

\* The comparison of line 211: the two records differ in Hash or in Length.
records_differ(manifest_file_info, info) ==
    \/ remove_last_touch_time(manifest_file_info).Hash # remove_last_touch_time(info).Hash
    \/ remove_last_touch_time(manifest_file_info).Length # remove_last_touch_time(info).Length

\* Lines 204-214: whether a scanned record goes to diff_files.
in_diff(data, info) ==
    IF info.RelativePath \in DOMAIN data
    THEN records_differ(data[info.RelativePath], info)
    ELSE TRUE

source_files_info(r, now) ==
    LET source_files == collect_file_paths(r, manifest_file)
    IN [i \in DOMAIN source_files |-> get_file_info(r, source_files[i], now)]

Ev(e, r, n) == <<e, r, n, run>>
Cur == Jobs[row]

main ==
    /\ pc = "idle"
    /\ run < MaxRuns
    /\ run' = run + 1
    /\ row' = 1
    /\ pc' = "row"
    /\ UNCHANGED <<callVars, srcVars, manifestExists, manifest, dstExists, dst,
                   file_list, idx, file_info, cwf, attempt, enc_list, diffVars,
                   edits, hist>>

\* Lines 183-215: the manifest of the row's source root opens; the diff is
\* computed and logged, and the row ends.
compare_files ==
    /\ pc = "row"
    /\ row <= Len(Jobs)
    /\ manifestExists[Cur]
    /\ LET infos == source_files_info(Cur, run)
           data == manifest_data(manifest[Cur])
       IN /\ scanned' = [scanned EXCEPT ![Cur] = infos]
          /\ diff_files' = [diff_files EXCEPT ![Cur] =
                                SelectSeq(infos, LAMBDA info : in_diff(data, info))]
    /\ hist' = hist \cup {Ev("diff", Cur, <<>>)}
    /\ row' = row + 1
    /\ UNCHANGED <<callVars, srcVars, manifestExists, manifest, dstExists, dst,
                   pc, run, file_list, idx, file_info, cwf, attempt, enc_list,
                   iterations_file, edits>>

\* The for loop over the rows is over: compare_files and main return.
main_return ==
    /\ pc = "row"
    /\ row > Len(Jobs)
    /\ pc' = "idle"
    /\ row' = 0
    /\ UNCHANGED <<callVars, srcVars, manifestExists, manifest, dstExists, dst,
                   run, file_list, idx, file_info, cwf, attempt, enc_list,
                   diffVars, edits, hist>>

\* ------------------------------------------------------------ initial_backup
\* Line 235 as it would be if the source root were taken to exist.
src_taken_to_exist(r) == TRUE

\* Line 235: os.path.exists(src).
src_exists(r) == srcExists[r]

\* Lines 217-252: no manifest opens (FileNotFoundError); initial_backup checks
\* the source root, creates the destination root and walks the source.
initial_backup ==
    /\ pc = "row"
    /\ row <= Len(Jobs)
    /\ ~manifestExists[Cur]
    /\ IF ~src_exists(Cur)
       THEN /\ row' = row + 1
            /\ UNCHANGED <<dstExists, file_list, idx, pc, hist>>
       ELSE /\ dstExists' = [dstExists EXCEPT ![Cur] = TRUE]
            /\ file_list' = os_walk(Cur)
            /\ idx' = 1
            /\ pc' = "file"
            /\ hist' = hist \cup {Ev("initial_backup", Cur, <<>>)}
            /\ UNCHANGED row
    /\ UNCHANGED <<callVars, srcVars, manifestExists, manifest, dst, run,
                   file_info, cwf, attempt, enc_list, diffVars, edits>>

\* Lines 256-278: the record of the next file is appended to the manifest.
record_file ==
    /\ pc = "file"
    /\ idx <= Len(file_list)
    /\ LET info == get_file_info(Cur, file_list[idx], run)
           existing_data == IF manifestExists[Cur] THEN manifest[Cur] ELSE <<>>
       IN /\ file_info' = info
          /\ manifest' = [manifest EXCEPT ![Cur] = Append(existing_data, info)]
          /\ manifestExists' = [manifestExists EXCEPT ![Cur] = TRUE]
    /\ pc' = "add_backup"
    /\ UNCHANGED <<callVars, srcVars, dstExists, dst, run, row, file_list, idx,
                   cwf, attempt, enc_list, diffVars, edits, hist>>

\* The for loop over file_list is over: initial_backup returns to the row loop.
initial_backup_return ==
    /\ pc = "file"
    /\ idx > Len(file_list)
    /\ pc' = "row"
    /\ row' = row + 1
    /\ file_list' = <<>>
    /\ idx' = 0
    /\ file_info' = NoInfo
    /\ UNCHANGED <<callVars, srcVars, manifestExists, manifest, dstExists, dst,
                   run, cwf, attempt, enc_list, diffVars, edits, hist>>

\* ---------------------------------------------------------------- add_backup
\* The uncaught exception of a stage leaves add_backup, initial_backup and the
\* except FileNotFoundError handler of compare_files that called it; the outer
\* except of compare_files (line 224) logs it and compare_files returns.
Raise(e) ==
    /\ pc' = "idle"
    /\ row' = 0
    /\ file_list' = <<>>
    /\ idx' = 0
    /\ file_info' = NoInfo
    /\ cwf' = <<>>
    /\ attempt' = 0
    /\ enc_list' = <<>>
    /\ hist' = hist \cup {Ev(e, Cur, file_list[idx])}

\* add_backup returns to the loop of initial_backup.
Return(events) ==
    /\ pc' = "file"
    /\ idx' = idx + 1
    /\ cwf' = <<>>
    /\ attempt' = 0
    /\ enc_list' = <<>>
    /\ hist' = hist \cup events

\* Lines 290-312: dst_file is dst joined with the relative path.
add_backup ==
    /\ pc = "add_backup"
    /\ LET dst_file == file_info.RelativePath
       IN IF dst_file \in DOMAIN dst[Cur]
          THEN /\ Return({Ev("add_backup", Cur, file_list[idx])})
          ELSE /\ cwf' = dst_file
               /\ attempt' = 0
               /\ pc' = "copy"
               /\ hist' = hist \cup {Ev("add_backup", Cur, file_list[idx])}
               /\ UNCHANGED <<idx, enc_list>>
    /\ UNCHANGED <<callVars, srcVars, manifestExists, manifest, dstExists, dst,
                   run, row, file_list, file_info, diffVars, edits>>

\* ---------------------------------------------------------- copy_current_file
\* What one shutil.copy2 leaves at the destination path: the source's bytes,
\* or bytes that differ from them.
CopyResults(r, n) == {SrcBytes(r, n), Raw(BadData, srcFiles[r][n].len)}

\* Line 340 as it would be if the comparison never succeeded.
copy_never_verified(fs, p, file_hash) == FALSE

\* Whether the attempt's hash comparison of line 340 succeeds.
copy_verified(fs, p, file_hash) == calculate_hash(fs, p) = file_hash

\* One turn of the loop of lines 334-344.
copy_attempt ==
    /\ pc = "copy"
    /\ attempt < MaxAttempts
    /\ \E written \in CopyResults(Cur, file_list[idx]) :
          LET fs == Put(dst[Cur], cwf, written)
          IN /\ dst' = [dst EXCEPT ![Cur] = fs]
             /\ IF copy_verified(fs, cwf, file_info.Hash)
                THEN /\ pc' = "compress"
                     /\ attempt' = 0
                     /\ hist' = hist \cup {Ev("copy_verified", Cur, file_list[idx])}
                ELSE /\ attempt' = attempt + 1
                     /\ UNCHANGED <<pc, hist>>
    /\ UNCHANGED <<callVars, srcVars, manifestExists, manifest, dstExists, run,
                   loopVars, cwf, enc_list, diffVars, edits>>

\* shutil.copy2 raises: the except of line 345 logs it and the function returns.
copy_raises ==
    /\ pc = "copy"
    /\ attempt < MaxAttempts
    /\ pc' = "compress"
    /\ attempt' = 0
    /\ UNCHANGED <<callVars, srcVars, manifestExists, manifest, dstExists, dst,
                   run, loopVars, cwf, enc_list, diffVars, edits, hist>>

\* range(4) is used up: the loop ends without a verified copy and the function
\* returns.
copy_exhausted ==
    /\ pc = "copy"
    /\ attempt = MaxAttempts
    /\ pc' = "compress"
    /\ attempt' = 0
    /\ UNCHANGED <<callVars, srcVars, manifestExists, manifest, dstExists, dst,
                   run, loopVars, cwf, enc_list, diffVars, edits, hist>>

\* ------------------------------------------------------ compress_current_file
\* os.path.splitext(...)[1] without its dot: the last name part, "" when there
\* is none; the dot that starts a base name (a first name part "") starts no
\* extension.
splitext(p) ==
    IF p[1] = "" THEN (IF Len(p) > 2 THEN Last(p) ELSE "")
    ELSE (IF Len(p) > 1 THEN Last(p) ELSE "")

\* Lines 371-377: the extension without its dot, or "." when there is none or
\* the base name starts with a dot.
file_ext(p) == IF splitext(p) # "" /\ p[1] # "" THEN splitext(p) ELSE "."

\* Line 388 as it would be if the extension of a name that starts with a dot
\* counted.
should_compress_by_ext(p, file_length) ==
    /\ file_length >= MinCompressLen
    /\ (splitext(p) \notin file_not_compress \/ splitext(p) = "")

\* Line 388.
should_compress(p, file_length) ==
    /\ file_length >= MinCompressLen
    /\ (file_ext(p) \notin file_not_compress \/ file_ext(p) = ".")

\* Sizes the .xz of content c may have.
XzLens(c) == {Size(c) \div 2}

Xz(c, d, n) ==
    [data |-> d, layers |-> Append(c.layers, "xz"), lens |-> Append(c.lens, n),
     part |-> c.part, kdf |-> c.kdf]

\* What lzma leaves in the .xz of content c: a stream of its bytes, or a
\* stream that does not give them back.
XzResults(c) == {Xz(c, d, n) : d \in {c.data, BadData}, n \in XzLens(c)}

\* lzma.open(..., "rb") read to the end.
Decompress(x) ==
    [data |-> x.data, layers |-> Front(x.layers), lens |-> Front(x.lens),
     part |-> x.part, kdf |-> x.kdf]

\* calculate_chunked_hash over a stream of bytes.
calculate_chunked_hash(c) == Digest(c)

\* Lines 401-424: whether this attempt removes the uncompressed file and
\* leaves the loop: above 1 GiB when the decompressed hash equals file_hash,
\* otherwise always.
compress_accepts(x, file_hash, file_length) ==
    IF file_length > VerifyLimit
    THEN calculate_chunked_hash(Decompress(x)) = file_hash
    ELSE TRUE

\* The else of line 425: the file is not to be compressed.
compress_skip ==
    /\ pc = "compress"
    /\ ~should_compress(cwf, file_info.Length)
    /\ pc' = "split"
    /\ UNCHANGED <<callVars, srcVars, manifestExists, manifest, dstExists, dst,
                   run, loopVars, cwf, attempt, enc_list, diffVars, edits,
                   hist>>

\* One turn of the loop of lines 389-424 in which lzma writes the .xz.
compress_attempt ==
    /\ pc = "compress"
    /\ should_compress(cwf, file_info.Length)
    /\ attempt < MaxAttempts
    /\ cwf \in DOMAIN dst[Cur]
    /\ \E x \in XzResults(dst[Cur][cwf]) :
          IF compress_accepts(x, file_info.Hash, file_info.Length)
          THEN /\ dst' = [dst EXCEPT ![Cur] =
                              Remove(Put(dst[Cur], Append(cwf, "xz"), x), cwf)]
               /\ cwf' = Append(cwf, "xz")
               /\ pc' = "split"
               /\ attempt' = 0
          ELSE /\ dst' = [dst EXCEPT ![Cur] = Put(dst[Cur], Append(cwf, "xz"), x)]
               /\ attempt' = attempt + 1
               /\ UNCHANGED <<cwf, pc>>
    /\ UNCHANGED <<callVars, srcVars, manifestExists, manifest, dstExists, run,
                   loopVars, enc_list, diffVars, edits, hist>>

\* One turn in which compressing raises (line 398): the input does not open,
\* or lzma fails and leaves a broken .xz; the loop continues.
compress_raises ==
    /\ pc = "compress"
    /\ should_compress(cwf, file_info.Length)
    /\ attempt < MaxAttempts
    /\ IF cwf \in DOMAIN dst[Cur]
       THEN \E n \in XzLens(dst[Cur][cwf]) :
               dst' = [dst EXCEPT ![Cur] =
                          Put(dst[Cur], Append(cwf, "xz"), Xz(dst[Cur][cwf], BadData, n))]
       ELSE UNCHANGED dst
    /\ attempt' = attempt + 1
    /\ UNCHANGED <<callVars, srcVars, manifestExists, manifest, dstExists, run,
                   loopVars, cwf, pc, enc_list, diffVars, edits, hist>>

\* range(4) is used up: the function returns the uncompressed path.
compress_exhausted ==
    /\ pc = "compress"
    /\ should_compress(cwf, file_info.Length)
    /\ attempt = MaxAttempts
    /\ pc' = "split"
    /\ attempt' = 0
    /\ hist' = hist \cup {Ev("compress_exhausted", Cur, file_list[idx])}
    /\ UNCHANGED <<callVars, srcVars, manifestExists, manifest, dstExists, dst,
                   run, loopVars, cwf, enc_list, diffVars, edits>>

\* --------------------------------------------------------- split_current_file
ChunkTag == <<"_1", "_2", "_3", "_4">>

\* The size handed to Split.bysize as it would be if line 461 named 3 GiB.
SplitSizeOther == 3 * GiB

\* Line 461: the size handed to Split.bysize.
SplitSize == 4 * GiB

\* filesplit names chunk i <name>_<i><ext>.
ChunkPath(p, i) ==
    IF Len(p) > 1 THEN Append(Append(Front(p), ChunkTag[i]), Last(p))
    ELSE Append(p, ChunkTag[i])

\* Split.bysize(size): the number of chunks and the size of chunk i.
ChunkCount(total, size) == (total + size - 1) \div size
ChunkLen(total, size, i) ==
    IF i < ChunkCount(total, size) THEN size
    ELSE total - (ChunkCount(total, size) - 1) * size

Chunk(c, i, n) ==
    [data |-> c.data, layers |-> Append(c.layers, "part"),
     lens |-> Append(c.lens, ChunkLen(Size(c), SplitSize, i)),
     part |-> <<i, n>>, kdf |-> c.kdf]

\* The split manifest: a header line and one line for each chunk.
ManFile(n) ==
    [data |-> ManData, layers |-> <<>>, lens |-> <<n + 1>>, part |-> <<0, n>>,
     kdf |-> 0]

\* Line 445 as it would be with >= for >.
at_least_split_limit(current_file_size) == current_file_size >= SplitLimit

\* Line 445.
exceeds_split_limit(current_file_size) == current_file_size > SplitLimit

\* The path of the split manifest of file p (lines 454-458, 468).
ManPath(p) == Append(p, "man")

\* Lines 441-458: the size is read; above the limit Split.bysize opens the
\* split manifest and writes its header line.
split_current_file ==
    /\ pc = "split"
    /\ IF cwf \notin DOMAIN dst[Cur]
       THEN \* os.path.getsize raises; nothing in add_backup catches it
            /\ Raise("raised")
            /\ UNCHANGED dst
       ELSE /\ IF exceeds_split_limit(Size(dst[Cur][cwf]))
               THEN /\ dst' = [dst EXCEPT ![Cur] = Put(dst[Cur], ManPath(cwf), ManFile(0))]
                    /\ pc' = "bysize"
               ELSE /\ pc' = "prepare"
                    /\ UNCHANGED dst
            /\ UNCHANGED <<loopVars, cwf, attempt, enc_list, hist>>
    /\ UNCHANGED <<callVars, srcVars, manifestExists, manifest, dstExists, run,
                   diffVars, edits>>

\* The number of chunks the split manifest of file p lists so far.
RowsWritten(fs, p) == fs[ManPath(p)].part[2]

\* Line 461, one turn of Split.bysize: the next chunk is written and its line
\* is added to the split manifest.
bysize_chunk ==
    /\ pc = "bysize"
    /\ LET fs == dst[Cur]
           n == ChunkCount(Size(fs[cwf]), SplitSize)
           i == RowsWritten(fs, cwf) + 1
       IN /\ i <= n
          /\ dst' = [dst EXCEPT ![Cur] =
                        Put(Put(fs, ChunkPath(cwf, i), Chunk(fs[cwf], i, n)),
                            ManPath(cwf), ManFile(i))]
    /\ UNCHANGED <<callVars, srcVars, manifestExists, manifest, dstExists, pc,
                   run, loopVars, cwf, attempt, enc_list, diffVars, edits,
                   hist>>

\* Split.bysize raises while chunks are still to be written (the disk is
\* full): line 465 is not reached and nothing in add_backup catches it.
bysize_raises ==
    /\ pc = "bysize"
    /\ RowsWritten(dst[Cur], cwf) < ChunkCount(Size(dst[Cur][cwf]), SplitSize)
    /\ Raise("raised")
    /\ UNCHANGED <<callVars, srcVars, manifestExists, manifest, dstExists, dst,
                   run, diffVars, edits>>

\* Line 465 as it would be if it were reached once the first chunk is
\* written.
bysize_returned_early(rows, n) == rows >= 1

\* Whether line 465 is reached: Split.bysize has returned.
bysize_returned(rows, n) == rows = n

\* Lines 465-468: the file that was split is removed and the split manifest
\* becomes the current working file.
split_remove ==
    /\ pc = "bysize"
    /\ bysize_returned(RowsWritten(dst[Cur], cwf),
                       ChunkCount(Size(dst[Cur][cwf]), SplitSize))
    /\ dst' = [dst EXCEPT ![Cur] = Remove(dst[Cur], cwf)]
    /\ cwf' = ManPath(cwf)
    /\ pc' = "prepare"
    /\ UNCHANGED <<callVars, srcVars, manifestExists, manifest, dstExists, run,
                   loopVars, attempt, enc_list, diffVars, edits, hist>>

\* ----------------------------------------------- prepare_files_for_encryption
\* Line 478.
is_man(p) == Last(p) = "man"

\* The number of lines after the first that the file holds: the chunks of a
\* split manifest; none or one for a file that is no split manifest.
ListedRows(c) == IF c.data = ManData THEN {c.part[2]} ELSE {0, 1}

\* Lines 486-495: the first comma field of each line after the first, joined
\* with the directory.  The lines of a split manifest name its chunks; a line
\* of another file names no file of the directory.
listed_file(p, c, i) ==
    IF c.data = ManData THEN ChunkPath(Front(p), i) ELSE <<"line", ChunkTag[i]>>

\* Lines 483-498: the listed files in the order of the lines, then the file
\* itself.
ManList(p, c, rows) == [i \in 1..rows |-> listed_file(p, c, i)] \o <<p>>

\* The path a line names when its first comma field is the absolute path of
\* file n under source root r: os.path.join (line 493) drops the directory
\* for it.
SourcePath(r, n) == <<"/", r>> \o n

\* The lists lines 483-498 may build from the file: the one of its listed
\* files, or, for a file that is no split manifest, the one of a line that
\* names a file under the source root.
ManLists(p, c) ==
    {ManList(p, c, rows) : rows \in ListedRows(c)}
        \cup (IF c.data = ManData THEN {}
              ELSE {<<SourcePath(Cur, n), p>> : n \in DOMAIN srcFiles[Cur]})

prepare_files_for_encryption ==
    /\ pc = "prepare"
    /\ IF is_man(cwf)
       THEN \E list \in ManLists(cwf, dst[Cur][cwf]) : enc_list' = list
       ELSE enc_list' = <<cwf>>
    /\ pc' = "encrypt"
    /\ UNCHANGED <<callVars, srcVars, manifestExists, manifest, dstExists, dst,
                   run, loopVars, cwf, attempt, diffVars, edits, hist>>

\* ----------------------------------------------------- get_optimal_iterations
target_time_ms == 25
first_test_iterations == 1000

\* A timer reading is end_time - start_time in microseconds, the resolution
\* of the model's clock: elapsed_time_ms of line 527 is the reading / 1000.
\* What the timer may read in the turns of the loop of lines 523-529 in the
\* runs of main(): readings of 0 and then one above 0.
TimerReadings == {<<1000>>, <<0, 50000>>}

\* int(x / y): the quotient without its fraction, rounded towards zero.
int_quotient(x, y) ==
    LET q == (IF x < 0 THEN -x ELSE x) \div (IF y < 0 THEN -y ELSE y)
    IN IF (x < 0) = (y < 0) THEN q ELSE -q

\* Line 529: test_iterations *= 2.
doubled(trial) == 2 * trial

\* Line 532 as it would be if it used the trial count the loop began with.
optimal_of_first_trial(elapsed, trial) ==
    int_quotient(target_time_ms * 1000 * first_test_iterations, elapsed)

\* Line 532 for a reading of elapsed microseconds:
\* int((target_time_ms / elapsed_time_ms) * test_iterations).
optimal(elapsed, trial) ==
    int_quotient(target_time_ms * 1000 * trial, elapsed)

\* Lines 519-532: test_iterations doubles at every reading of 0; the first
\* reading other than 0 gives the result.
RECURSIVE optimal_iterations(_, _)
optimal_iterations(readings, trial) ==
    IF Head(readings) = 0
    THEN optimal_iterations(Tail(readings), doubled(trial))
    ELSE optimal(Head(readings), trial)

\* get_optimal_iterations as it would be if lines 513-516 were missing: every
\* call measures.
get_optimal_iterations_measured ==
    {optimal_iterations(t, first_test_iterations) : t \in TimerReadings}

\* The values the call may return: the stored one, or a measured one, which
\* the encrypt action stores.
get_optimal_iterations ==
    IF iterations_file # <<>> THEN {iterations_file[1]}
    ELSE {optimal_iterations(t, first_test_iterations) : t \in TimerReadings}

\* ------------------------------------------------------- encrypt_current_file
\* Length of the base64 text of n bytes.
B64Len(n) == 4 * ((n + 2) \div 3)

Encrypt(c, iterations) ==
    [data |-> c.data, layers |-> Append(c.layers, "enc"),
     lens |-> Append(c.lens, B64Len(Size(c))), part |-> c.part,
     kdf |-> iterations]

\* Lines 587-600: the plaintext that decrypting envelope e gives.
Decrypt(e) ==
    [data |-> e.data, layers |-> Front(e.layers), lens |-> Front(e.lens),
     part |-> e.part, kdf |-> 0]

\* Lines 582-618 as they would be if the file were removed whatever the
\* verification gives.
encrypt_removes_always(fs, f, original_hash) == TRUE

\* Lines 582-618: whether the plaintext file is removed once the envelope is
\* written.
encrypt_removes(fs, f, original_hash) ==
    IF Size(fs[f]) > VerifyLimit
    THEN calculate_chunked_hash(Decrypt(fs[Append(f, "enc")])) = original_hash
    ELSE TRUE

\* What lines 577-579 leave in the .enc of content c: the envelope, or, for
\* content above 1 GiB, whose envelope lines 584-615 read back, a file that
\* does not decrypt to c's bytes.
EncResults(c, iterations) ==
    {[Encrypt(c, iterations) EXCEPT !.data = d] :
        d \in {c.data} \cup (IF Size(c) > VerifyLimit THEN {BadData} ELSE {})}

\* Whether the path is the absolute path of a file under a source root.
is_source_path(f) == Len(f) > 2 /\ f[1] = "/"

\* The files under source root r, as contents.
SourceTree(r) == [n \in DOMAIN srcFiles[r] |-> SrcBytes(r, n)]

\* The files under source root r when a call has left the contents fs
\* there: the files that were there are as they were.
SourceRecords(r, fs) ==
    [n \in DOMAIN fs |->
        IF n \in DOMAIN srcFiles[r] THEN srcFiles[r][n]
        ELSE [data |-> fs[n].data, len |-> Size(fs[n]), mtime |-> run]]

\* Lines 541-621 for the next file of the list, which is a path under the
\* destination root or the absolute path of a file under a source root.  A
\* file that is not there does not open (line 549) and nothing in add_backup
\* catches it.
encrypt_current_file ==
    /\ pc = "encrypt"
    /\ enc_list # <<>>
    /\ LET f == Head(enc_list)
           abs == is_source_path(f)
           tree == IF abs THEN SourceTree(f[2]) ELSE dst[Cur]
           n == IF abs THEN SubSeq(f, 3, Len(f)) ELSE f
       IN IF n \notin DOMAIN tree
          THEN /\ Raise("raised")
               /\ UNCHANGED <<dst, srcFiles, iterations_file>>
          ELSE /\ \E iterations \in get_optimal_iterations :
                  \E written \in EncResults(tree[n], iterations) :
                     LET original_hash == calculate_hash(tree, n)
                         fs == Put(tree, Append(n, "enc"), written)
                         left == IF encrypt_removes(fs, n, original_hash)
                                 THEN Remove(fs, n) ELSE fs
                     IN /\ iterations_file' = <<iterations>>
                        /\ IF abs
                           THEN /\ srcFiles' = [srcFiles EXCEPT ![f[2]] =
                                                   SourceRecords(f[2], left)]
                                /\ UNCHANGED dst
                           ELSE /\ dst' = [dst EXCEPT ![Cur] = left]
                                /\ UNCHANGED srcFiles
               /\ enc_list' = Tail(enc_list)
               /\ UNCHANGED <<pc, loopVars, cwf, attempt, hist>>
    /\ UNCHANGED <<callVars, srcExists, manifestExists, manifest, dstExists,
                   run, diff_files, scanned, edits>>

\* Every file of the list is encrypted: add_backup returns.
add_backup_return ==
    /\ pc = "encrypt"
    /\ enc_list = <<>>
    /\ Return({Ev("finished", Cur, file_list[idx])})
    /\ UNCHANGED <<callVars, srcVars, manifestExists, manifest, dstExists, dst,
                   run, row, file_list, file_info, diffVars, edits>>

\* ------------------------------------------------- the user, between two runs
\* A file's modification time changes, its bytes do not.
touch_file(r, n) ==
    /\ pc = "idle"
    /\ run >= 1
    /\ edits < MaxEdits
    /\ n \in DOMAIN srcFiles[r]
    /\ srcFiles' = [srcFiles EXCEPT ![r][n].mtime = @ + 1]
    /\ edits' = edits + 1
    /\ UNCHANGED <<callVars, srcExists, manifestExists, manifest, dstExists,
                   dst, pc, run, loopVars, cwf, attempt, enc_list, diffVars,
                   hist>>

\* A file's bytes change; its size becomes len.
modify_file(r, n, len) ==
    /\ pc = "idle"
    /\ run >= 1
    /\ edits < MaxEdits
    /\ n \in DOMAIN srcFiles[r]
    /\ srcFiles' = [srcFiles EXCEPT ![r][n] =
                        [data |-> @.data + 100, len |-> len, mtime |-> @.mtime + 1]]
    /\ edits' = edits + 1
    /\ UNCHANGED <<callVars, srcExists, manifestExists, manifest, dstExists,
                   dst, pc, run, loopVars, cwf, attempt, enc_list, diffVars,
                   hist>>

AllLens == UNION {FileLens(r, n) : r \in Roots, n \in UNION {Names(r) : r \in Roots}}
LenChoices(r) == {l \in [Names(r) -> AllLens] : \A n \in Names(r) : l[n] \in FileLens(r, n)}
Tree(r, l) == [n \in Names(r) |-> [data |-> DataOf(r, n), len |-> l[n], mtime |-> 1]]

\* Neither get_optimal_iterations nor a call of calculate_hash is under way.
NoCall ==
    /\ test_iterations = 0
    /\ elapsed_time_ms = 0
    /\ algorithm = "md5"
    /\ copied_hash = <<>>

Init ==
    /\ srcExists \in [Roots -> BOOLEAN]
    /\ srcExists["r1"]
    /\ \E l1 \in LenChoices("r1"), l2 \in LenChoices("r2") :
          srcFiles = [r \in Roots |->
                         IF ~srcExists[r] THEN <<>>
                         ELSE Tree(r, IF r = "r1" THEN l1 ELSE l2)]
    /\ manifestExists = [r \in Roots |-> FALSE]
    /\ manifest = [r \in Roots |-> <<>>]
    /\ dstExists = [r \in Roots |-> FALSE]
    /\ dst = [r \in Roots |-> <<>>]
    /\ pc = "idle"
    /\ run = 0
    /\ row = 0
    /\ file_list = <<>>
    /\ idx = 0
    /\ file_info = NoInfo
    /\ cwf = <<>>
    /\ attempt = 0
    /\ enc_list = <<>>
    /\ iterations_file = <<>>
    /\ diff_files = [r \in Roots |-> <<>>]
    /\ scanned = [r \in Roots |-> <<>>]
    /\ edits = 0
    /\ hist = {}
    /\ NoCall

\* The steps of main() and of the user.  Split.bysize returns in every run
\* of Spec; the runs in which it raises are those of SpecAddBackup.
Next ==
    \/ main
    \/ compare_files
    \/ main_return
    \/ initial_backup
    \/ record_file
    \/ initial_backup_return
    \/ add_backup
    \/ copy_attempt
    \/ copy_raises
    \/ copy_exhausted
    \/ compress_skip
    \/ compress_attempt
    \/ compress_raises
    \/ compress_exhausted
    \/ split_current_file
    \/ bysize_chunk
    \/ split_remove
    \/ prepare_files_for_encryption
    \/ encrypt_current_file
    \/ add_backup_return
    \/ \E r \in Roots : \E n \in Names(r) : touch_file(r, n)
    \/ \E r \in Roots : \E n \in Names(r) : \E len \in FileLens(r, n) : modify_file(r, n, len)

Spec == Init /\ [][Next]_vars

\* ------------------------------------------- add_backup for one copied file
\* add_backup at line 317 of the initial backup of a root that holds one
\* file, whose copy has verified: the names and sizes the stages are tried on.
StageNames == {<<"a">>, <<"b", "jpg">>, <<"", "h", "jpg">>, <<"", "rc">>,
               <<"x", "man">>}
StageLens == {5, MinCompressLen - 1, MinCompressLen, 2 * GiB, SplitLimit,
              SplitLimit + 1, 9 * GiB}

InitAddBackup ==
    \E n \in StageNames : \E len \in StageLens :
        /\ srcExists = [r \in Roots |-> r = "r1"]
        /\ srcFiles = [r \in Roots |->
                          IF r = "r1"
                          THEN (n :> [data |-> DataOf(r, n), len |-> len, mtime |-> 1])
                          ELSE <<>>]
        /\ manifestExists = [r \in Roots |-> r = "r1"]
        /\ manifest = [r \in Roots |->
                          IF r = "r1" THEN <<get_file_info(r, n, 1)>> ELSE <<>>]
        /\ dstExists = [r \in Roots |-> r = "r1"]
        /\ dst = [r \in Roots |-> IF r = "r1" THEN (n :> SrcBytes(r, n)) ELSE <<>>]
        /\ pc = "compress"
        /\ run = 1
        /\ row = 1
        /\ file_list = <<n>>
        /\ idx = 1
        /\ file_info = get_file_info("r1", n, 1)
        /\ cwf = n
        /\ attempt = 0
        /\ enc_list = <<>>
        /\ iterations_file = <<>>
        /\ diff_files = [r \in Roots |-> <<>>]
        /\ scanned = [r \in Roots |-> <<>>]
        /\ edits = 0
        /\ hist = {<<e, "r1", n, 1>> : e \in {"add_backup", "copy_verified"}}
                      \cup {<<"initial_backup", "r1", <<>>, 1>>}
        /\ NoCall

NextAddBackup ==
    \/ compress_skip
    \/ compress_attempt
    \/ compress_raises
    \/ compress_exhausted
    \/ split_current_file
    \/ bysize_chunk
    \/ bysize_raises
    \/ split_remove
    \/ prepare_files_for_encryption
    \/ encrypt_current_file
    \/ add_backup_return

SpecAddBackup == InitAddBackup /\ [][NextAddBackup]_vars

\* ------------------------------------------- initial_backup over directories
\* The files os.walk may yield for a root with directories, each the
\* sequence of the characters of its path below the root, in walk order:
\* ab, a../b, a/b, b, a./b, .../b, .b
WalkPaths == << <<"a", "b">>,
                <<"a", ".", ".", "/", "b">>,
                <<"a", "/", "b">>,
                <<"b">>,
                <<"a", ".", "/", "b">>,
                <<".", ".", ".", "/", "b">>,
                <<".", "b">> >>

\* The trees the walk is tried on hold up to MaxTreeFiles of them.
MaxTreeFiles == 3

\* initial_backup at line 255 for root r1: the walk of lines 248-251 is done,
\* no record is written yet.
InitWalked ==
    \E tree \in SUBSET DOMAIN WalkPaths :
        /\ tree # {}
        /\ Cardinality(tree) <= MaxTreeFiles
        /\ srcExists = [r \in Roots |-> r = "r1"]
        /\ srcFiles = [r \in Roots |->
                          IF r = "r1"
                          THEN [n \in {WalkPaths[i] : i \in tree} |->
                                   [data |-> CHOOSE i \in tree : WalkPaths[i] = n,
                                    len |-> 5, mtime |-> 1]]
                          ELSE <<>>]
        /\ file_list = SelectSeq(WalkPaths, LAMBDA n : \E i \in tree : WalkPaths[i] = n)
        /\ manifestExists = [r \in Roots |-> FALSE]
        /\ manifest = [r \in Roots |-> <<>>]
        /\ dstExists = [r \in Roots |-> r = "r1"]
        /\ dst = [r \in Roots |-> <<>>]
        /\ pc = "file"
        /\ run = 1
        /\ row = 1
        /\ idx = 1
        /\ file_info = NoInfo
        /\ cwf = <<>>
        /\ attempt = 0
        /\ enc_list = <<>>
        /\ iterations_file = <<>>
        /\ diff_files = [r \in Roots |-> <<>>]
        /\ scanned = [r \in Roots |-> <<>>]
        /\ edits = 0
        /\ hist = {<<"initial_backup", "r1", <<>>, 1>>}
        /\ NoCall

\* Line 280: add_backup runs to its end for the file just recorded.  What it
\* writes is under the destination root (lines 290-328); it is left out here.
add_backup_done ==
    /\ pc = "add_backup"
    /\ Return({Ev("add_backup", Cur, file_list[idx])})
    /\ UNCHANGED <<callVars, srcVars, manifestExists, manifest, dstExists, dst,
                   run, row, file_list, file_info, diffVars, edits>>

NextWalked ==
    \/ record_file
    \/ add_backup_done

SpecWalked == InitWalked /\ [][NextWalked]_vars

\* --------------------------------------- the envelope and decrypt_current_file
\* The envelope field by field.  Bytes are terms: a plaintext is a sequence
\* of 0 and 1, a key, a ciphertext and a tag are the terms of what they were
\* computed from, <<"flip", x>> are bytes that differ from x.  A base64 text
\* is <<"b64", x, v>>: the text b64encode gives for bytes x when v = 0,
\* another text that b64decode reads as x (other padding bits, characters
\* outside the alphabet) when v = 1; <<"junk", <<>>, 0>> is a text that
\* b64decode does not read.
password == <<"ThisIsASecretKey">>
header == <<"header">>

pbkdf2_hmac(pw, salt, iterations) == <<"key", pw, salt, iterations>>

\* AES-GCM: encrypt_and_digest gives the ciphertext and the tag of the key,
\* the nonce, the header and the ciphertext.
gcm_ciphertext(key, nonce, plaintext) == <<"ct", key, nonce, plaintext>>
gcm_tag(key, nonce, hdr, ciphertext) == <<"tag", key, nonce, hdr, ciphertext>>

\* What decrypting gives once the tag is verified.
gcm_plaintext(key, nonce, ciphertext) ==
    IF ciphertext[1] = "ct" /\ ciphertext[2] = key /\ ciphertext[3] = nonce
    THEN ciphertext[4]
    ELSE <<2>>

b64encode(x) == <<"b64", x, 0>>
b64decodes(text) == text[1] = "b64"
b64decode(text) == text[2]

\* Lines 553-574: the JSON object written for a plaintext.
envelope(plaintext, salt, nonce, iterations) ==
    LET key == pbkdf2_hmac(password, salt, iterations)
        ciphertext == gcm_ciphertext(key, nonce, plaintext)
        tag == gcm_tag(key, nonce, header, ciphertext)
    IN [nonce |-> b64encode(nonce), header |-> b64encode(header),
        ciphertext |-> b64encode(ciphertext), tag |-> b64encode(tag),
        salt |-> b64encode(salt), iterations |-> iterations]

\* Lines 630-634: every base64 field is read.
envelope_decodes(data) ==
    \A k \in {"nonce", "header", "ciphertext", "tag", "salt"} : b64decodes(data[k])

\* The key as it would be if line 640 used the count the calibration starts
\* from, not the one of the envelope.
envelope_key_default(data) ==
    pbkdf2_hmac(password, b64decode(data.salt), first_test_iterations)

\* Lines 634-640: the key of the envelope's salt and iterations.
envelope_key(data) ==
    pbkdf2_hmac(password, b64decode(data.salt), data.iterations)

\* Line 649 as it would be if it decrypted without verifying the tag.
tag_unverified(data) == TRUE

\* Line 649: whether decrypt_and_verify accepts the tag.
tag_verifies(data) ==
    gcm_tag(envelope_key(data), b64decode(data.nonce), b64decode(data.header),
            b64decode(data.ciphertext)) = b64decode(data.tag)

\* Line 649: the plaintext decrypt_and_verify returns.
decrypt_and_verify(data) ==
    gcm_plaintext(envelope_key(data), b64decode(data.nonce),
                  b64decode(data.ciphertext))

\* Line 652, str.replace('.enc', '.dec'): every name part enc after the
\* first becomes dec.
decrypted_file_path(p) ==
    [i \in DOMAIN p |-> IF i > 1 /\ p[i] = "enc" THEN "dec" ELSE p[i]]

\* The inputs encryption and decryption are tried on.
Plaintexts == {<<>>, <<0>>, <<1>>, <<0, 1>>}
Salts == {<<"salt", 1>>, <<"salt", 2>>}
Nonces == {<<"nonce", 1>>, <<"nonce", 2>>}
CipherPaths == {<<"a">>, <<"a", "enc">>}

\* A file of plaintext bytes.
Bytes(b) == [bytes |-> b]

\* add_backup at the call of encrypt_current_file for a file of at most
\* 1 GiB, the only file under the destination root.
InitCipher ==
    \E plaintext \in Plaintexts : \E p \in CipherPaths :
        /\ srcExists = [r \in Roots |-> r = "r1"]
        /\ srcFiles = [r \in Roots |-> <<>>]
        /\ manifestExists = [r \in Roots |-> FALSE]
        /\ manifest = [r \in Roots |-> <<>>]
        /\ dstExists = [r \in Roots |-> r = "r1"]
        /\ dst = [r \in Roots |-> IF r = "r1" THEN (p :> Bytes(plaintext)) ELSE <<>>]
        /\ pc = "plaintext"
        /\ run = 1
        /\ row = 1
        /\ file_list = <<p>>
        /\ idx = 1
        /\ file_info = [NoInfo EXCEPT !.Hash = <<"md5", Bytes(plaintext)>>,
                                      !.RelativePath = p,
                                      !.Length = Len(plaintext)]
        /\ cwf = p
        /\ attempt = 0
        /\ enc_list = <<>>
        /\ iterations_file = <<>>
        /\ diff_files = [r \in Roots |-> <<>>]
        /\ scanned = [r \in Roots |-> <<>>]
        /\ edits = 0
        /\ hist = {}
        /\ NoCall

\* Lines 541-580 and 616-618 with the envelope field by field: the envelope
\* of the file's bytes is written next to the file, and the file, which is
\* of at most 1 GiB, is removed.
encrypt_envelope ==
    /\ pc = "plaintext"
    /\ \E salt \in Salts : \E nonce \in Nonces :
       \E iterations \in get_optimal_iterations :
          /\ iterations_file' = <<iterations>>
          /\ dst' = [dst EXCEPT ![Cur] =
                        Remove(Put(dst[Cur], Append(cwf, "enc"),
                                   envelope(dst[Cur][cwf].bytes, salt, nonce, iterations)),
                               cwf)]
    /\ cwf' = Append(cwf, "enc")
    /\ pc' = "envelope"
    /\ UNCHANGED <<callVars, srcVars, manifestExists, manifest, dstExists, run,
                   loopVars, attempt, enc_list, diff_files, scanned, edits,
                   hist>>

\* The texts a field may be changed to: another text of the same bytes, the
\* text of other bytes, a text that is no base64.
OtherTexts(text) ==
    {<<"b64", text[2], 1>>, <<"b64", <<"flip", text[2]>>, 0>>, <<"junk", <<>>, 0>>}

\* Somebody changes the ciphertext or the tag field of the stored envelope.
change_envelope(k) ==
    /\ pc = "envelope"
    /\ edits = 0
    /\ \E text \in OtherTexts(dst[Cur][cwf][k]) :
          dst' = [dst EXCEPT ![Cur][cwf][k] = text]
    /\ edits' = 1
    /\ UNCHANGED <<callVars, srcVars, manifestExists, manifest, dstExists, pc,
                   run, loopVars, cwf, attempt, enc_list, diffVars, hist>>

\* Lines 623-656.  b64decode raises binascii.Error for a field it does not
\* read and decrypt_and_verify raises ValueError for a tag it does not
\* accept, both before line 653 opens the output file.
decrypt_current_file ==
    /\ pc = "envelope"
    /\ LET data == dst[Cur][cwf]
       IN IF ~envelope_decodes(data)
          THEN /\ pc' = "binascii.Error"
               /\ UNCHANGED dst
          ELSE IF ~tag_verifies(data)
               THEN /\ pc' = "ValueError"
                    /\ UNCHANGED dst
               ELSE /\ pc' = "decrypted"
                    /\ dst' = [dst EXCEPT ![Cur] =
                                  Put(dst[Cur], decrypted_file_path(cwf),
                                      Bytes(decrypt_and_verify(data)))]
    /\ UNCHANGED <<callVars, srcVars, manifestExists, manifest, dstExists, run,
                   loopVars, cwf, attempt, enc_list, diffVars, edits, hist>>

NextCipher ==
    \/ encrypt_envelope
    \/ \E k \in {"ciphertext", "tag"} : change_envelope(k)
    \/ decrypt_current_file

SpecCipher == InitCipher /\ [][NextCipher]_vars

\* ------------------------------------- get_optimal_iterations, turn by turn
\* The zero readings the timer gives in a row are bounded.
MaxZeroReadings == 3

\* What the timer may read in one turn of the loop, in microseconds: the
\* clock is time.time(), which the system may set back or forward between
\* the two readings.
Readings == {-500, 0, 1, 300, 1000, 7000, 50000, 25000000, 25000001, 30000000}

\* A count stored by an earlier run, or none.
StoredIterations == {<<>>, <<25000>>}

\* encrypt_current_file at line 559, for a file of at most 1 GiB, the only
\* file under the destination root.
InitCalibrate ==
    \E plaintext \in Plaintexts : \E stored \in StoredIterations :
        /\ srcExists = [r \in Roots |-> r = "r1"]
        /\ srcFiles = [r \in Roots |-> <<>>]
        /\ manifestExists = [r \in Roots |-> FALSE]
        /\ manifest = [r \in Roots |-> <<>>]
        /\ dstExists = [r \in Roots |-> r = "r1"]
        /\ dst = [r \in Roots |->
                     IF r = "r1" THEN (<<"a">> :> Bytes(plaintext)) ELSE <<>>]
        /\ pc = "get_optimal_iterations"
        /\ run = 1
        /\ row = 1
        /\ file_list = << <<"a">> >>
        /\ idx = 1
        /\ file_info = [NoInfo EXCEPT !.Hash = <<"md5", Bytes(plaintext)>>,
                                      !.RelativePath = <<"a">>,
                                      !.Length = Len(plaintext)]
        /\ cwf = <<"a">>
        /\ attempt = 0
        /\ enc_list = <<>>
        /\ iterations_file = stored
        /\ diff_files = [r \in Roots |-> <<>>]
        /\ scanned = [r \in Roots |-> <<>>]
        /\ edits = 0
        /\ hist = {}
        /\ NoCall

\* Lines 512-520: the stored count is returned, or the measurement starts.
read_iterations_file ==
    /\ pc = "get_optimal_iterations"
    /\ IF iterations_file # <<>>
       THEN /\ pc' = "derive"
            /\ UNCHANGED <<test_iterations, elapsed_time_ms>>
       ELSE /\ test_iterations' = first_test_iterations
            /\ elapsed_time_ms' = 0
            /\ pc' = "while"
    /\ UNCHANGED <<srcVars, manifestExists, manifest, dstExists, dst, run,
                   loopVars, cwf, attempt, enc_list, diffVars, edits, hist,
                   algorithm, copied_hash>>

\* Lines 523-529, one turn of the loop: the key derivation is timed, and
\* the trial count doubles when the reading is 0.
measure ==
    /\ pc = "while"
    /\ elapsed_time_ms = 0
    /\ \E reading \in Readings :
          /\ reading = 0 =>
                test_iterations < first_test_iterations * 2 ^ MaxZeroReadings
          /\ elapsed_time_ms' = reading
          /\ test_iterations' =
                IF reading = 0 THEN doubled(test_iterations) ELSE test_iterations
    /\ UNCHANGED <<srcVars, manifestExists, manifest, dstExists, dst, pc, run,
                   loopVars, cwf, attempt, enc_list, diffVars, edits, hist,
                   algorithm, copied_hash>>

\* Lines 523 and 532-538: the loop is left, the count is computed, stored
\* and returned.
store_iterations ==
    /\ pc = "while"
    /\ elapsed_time_ms # 0
    /\ iterations_file' = <<optimal(elapsed_time_ms, test_iterations)>>
    /\ pc' = "derive"
    /\ UNCHANGED <<callVars, srcVars, manifestExists, manifest, dstExists, dst,
                   run, loopVars, cwf, attempt, enc_list, diff_files, scanned,
                   edits, hist>>

\* Lines 563-580 and 616-618: hashlib.pbkdf2_hmac raises ValueError for a
\* count below 1; otherwise the envelope is written and the file removed.
derive_key ==
    /\ pc = "derive"
    /\ LET iterations == iterations_file[1]
       IN IF iterations < 1
          THEN /\ pc' = "ValueError"
               /\ UNCHANGED <<dst, cwf>>
          ELSE /\ \E salt \in Salts : \E nonce \in Nonces :
                     dst' = [dst EXCEPT ![Cur] =
                                Remove(Put(dst[Cur], Append(cwf, "enc"),
                                           envelope(dst[Cur][cwf].bytes, salt,
                                                    nonce, iterations)),
                                       cwf)]
               /\ cwf' = Append(cwf, "enc")
               /\ pc' = "envelope"
    /\ UNCHANGED <<callVars, srcVars, manifestExists, manifest, dstExists, run,
                   loopVars, attempt, enc_list, diffVars, edits, hist>>

NextCalibrate ==
    \/ read_iterations_file
    \/ measure
    \/ store_iterations
    \/ derive_key

SpecCalibrate == InitCalibrate /\ [][NextCalibrate]_vars

\* ------------------------------------- initial_backup over files of one name
\* The files of a root whose names differ in a suffix that a stage appends,
\* and the sizes they are tried with.
BatchNames == << <<"a">>, <<"a", "enc">>, <<"a", "xz">> >>
BatchLens(n) == IF n = <<"a">> THEN {5, 200, 2 * GiB} ELSE {5, 200}

\* The orders in which os.walk may yield one or two of the files.
BatchLists ==
    {<<BatchNames[i]>> : i \in DOMAIN BatchNames}
        \cup {list \in {<<BatchNames[i], BatchNames[j]>> :
                           i \in DOMAIN BatchNames, j \in DOMAIN BatchNames} :
                 list[1] # list[2]}

\* initial_backup at line 255 for root r1: the walk of lines 248-251 is done,
\* no record is written yet.
InitBatch ==
    \E list \in BatchLists :
    \E lens \in [DOMAIN list -> UNION {BatchLens(BatchNames[i]) : i \in DOMAIN BatchNames}] :
        /\ \A i \in DOMAIN list : lens[i] \in BatchLens(list[i])
        /\ srcExists = [r \in Roots |-> r = "r1"]
        /\ srcFiles = [r \in Roots |->
                          IF r = "r1"
                          THEN [n \in {list[i] : i \in DOMAIN list} |->
                                   [data |-> CHOOSE k \in DOMAIN BatchNames :
                                                 BatchNames[k] = n,
                                    len |-> lens[CHOOSE i \in DOMAIN list : list[i] = n],
                                    mtime |-> 1]]
                          ELSE <<>>]
        /\ file_list = list
        /\ manifestExists = [r \in Roots |-> FALSE]
        /\ manifest = [r \in Roots |-> <<>>]
        /\ dstExists = [r \in Roots |-> r = "r1"]
        /\ dst = [r \in Roots |-> <<>>]
        /\ pc = "file"
        /\ run = 1
        /\ row = 1
        /\ idx = 1
        /\ file_info = NoInfo
        /\ cwf = <<>>
        /\ attempt = 0
        /\ enc_list = <<>>
        /\ iterations_file = <<>>
        /\ diff_files = [r \in Roots |-> <<>>]
        /\ scanned = [r \in Roots |-> <<>>]
        /\ edits = 0
        /\ hist = {<<"initial_backup", "r1", <<>>, 1>>}
        /\ NoCall

\* The loop of initial_backup and add_backup for files of at most 4 GiB.
NextBatch ==
    \/ record_file
    \/ initial_backup_return
    \/ add_backup
    \/ copy_attempt
    \/ copy_raises
    \/ copy_exhausted
    \/ compress_skip
    \/ compress_attempt
    \/ compress_raises
    \/ compress_exhausted
    \/ split_current_file
    \/ prepare_files_for_encryption
    \/ encrypt_current_file
    \/ add_backup_return

\* The steps of one call of add_backup.  The program is one thread: a call
\* that has started takes each step it can take.
add_backup_steps ==
    \/ add_backup
    \/ copy_attempt
    \/ copy_raises
    \/ copy_exhausted
    \/ compress_skip
    \/ compress_attempt
    \/ compress_raises
    \/ compress_exhausted
    \/ split_current_file
    \/ prepare_files_for_encryption
    \/ encrypt_current_file
    \/ add_backup_return

SpecBatch == InitBatch /\ [][NextBatch]_vars /\ WF_vars(add_backup_steps)

\* ------------------------------------------------- a call of calculate_hash
\* hashlib.algorithms_available, of the algorithms the calls are tried with.
algorithms_available == {"md5"}
HashAlgorithms == {"md5", "md6"}

\* Lines 101-116 with the algorithm argument.  For an algorithm hashlib does
\* not have, line 106 raises inside the try, and the except branch raises
\* UnboundLocalError at line 115, where hash_func is not bound.
hash_or_error(fs, p, alg) ==
    IF alg \notin algorithms_available THEN <<"UnboundLocalError">>
    ELSE calculate_hash(fs, p)

\* The paths and the contents the calls are tried with.
HashPaths == {<<"a">>, <<"b", "jpg">>}
HashContents == {Raw(11, 0), Raw(11, 5), Raw(12, 200)}
HashTrees ==
    UNION {[names -> HashContents] : names \in SUBSET HashPaths}

\* A caller is about to call calculate_hash(file_path, algorithm) for a path
\* under the destination root that is there or is not.
InitHash ==
    \E tree \in HashTrees : \E p \in HashPaths : \E alg \in HashAlgorithms :
        /\ srcExists = [r \in Roots |-> r = "r1"]
        /\ srcFiles = [r \in Roots |-> <<>>]
        /\ manifestExists = [r \in Roots |-> FALSE]
        /\ manifest = [r \in Roots |-> <<>>]
        /\ dstExists = [r \in Roots |-> r = "r1"]
        /\ dst = [r \in Roots |-> IF r = "r1" THEN tree ELSE <<>>]
        /\ pc = "calculate_hash"
        /\ run = 1
        /\ row = 1
        /\ file_list = <<p>>
        /\ idx = 1
        /\ file_info = NoInfo
        /\ cwf = p
        /\ attempt = 0
        /\ enc_list = <<>>
        /\ iterations_file = <<>>
        /\ diff_files = [r \in Roots |-> <<>>]
        /\ scanned = [r \in Roots |-> <<>>]
        /\ edits = 0
        /\ hist = {}
        /\ test_iterations = 0
        /\ elapsed_time_ms = 0
        /\ algorithm = alg
        /\ copied_hash = <<>>

\* Lines 101-116: the call returns a digest to its caller, or raises.
calculate_hash_call ==
    /\ pc = "calculate_hash"
    /\ LET result == hash_or_error(dst[Cur], cwf, algorithm)
       IN IF result = <<"UnboundLocalError">>
          THEN /\ pc' = "UnboundLocalError"
               /\ UNCHANGED copied_hash
          ELSE /\ pc' = "returned"
               /\ copied_hash' = result
    /\ UNCHANGED <<srcVars, manifestExists, manifest, dstExists, dst, run,
                   loopVars, cwf, attempt, enc_list, diffVars, edits, hist,
                   test_iterations, elapsed_time_ms, algorithm>>

NextHash == calculate_hash_call

SpecHash == InitHash /\ [][NextHash]_vars

\* ------------------------------------------------------------------- claims
InPipeline == pc \in {"compress", "split", "bysize", "prepare", "encrypt"}
Happened(e, r, n) == \E k \in 1..run : <<e, r, n, k>> \in hist
Paths(list) == [i \in DOMAIN list |-> list[i].RelativePath]
InSeq(x, list) == \E i \in DOMAIN list : list[i] = x

\* The bytes an envelope gives back: decrypt, then decompress if it is a .xz.
Recover(e) ==
    IF Decrypt(e).layers # <<>> /\ Last(Decrypt(e).layers) = "xz"
    THEN Decompress(Decrypt(e))
    ELSE Decrypt(e)

\* The envelopes add_backup may leave for the unsplit file n.
EnvelopePaths(n) == {Append(n, "enc"), Append(Append(n, "xz"), "enc")}

\* C1: while the source tree is as it was scanned, whenever the destination
\* copy of a file is gone and an envelope of the file is there, the bytes
\* recovered from the envelope are the source file's bytes.
C1_EndToEndIntegrity ==
    edits = 0 =>
        \A r \in Roots : \A n \in DOMAIN srcFiles[r] :
            \A p \in EnvelopePaths(n) \cap DOMAIN dst[r] :
                (n \notin DOMAIN dst[r] /\ dst[r][p].layers # <<>>
                                        /\ Last(dst[r][p].layers) = "enc")
                    => Recover(dst[r][p]) = SrcBytes(r, n)

\* C2: add_backup is in compress, split or encryption for a file only if a
\* copy attempt of that file verified.
C2_CopyVerifyGate ==
    InPipeline => Ev("copy_verified", Cur, file_list[idx]) \in hist

\* C3: when compress_current_file has removed the uncompressed copy and
\* returned the .xz, the .xz decompresses to bytes whose hash is the file's
\* hash, whatever the file's size.
C3_CompressVerifyGate ==
    (pc = "split" /\ cwf = Append(file_info.RelativePath, "xz")) =>
        /\ cwf \in DOMAIN dst[Cur]
        /\ calculate_chunked_hash(Decompress(dst[Cur][cwf])) = file_info.Hash

\* C4: after all compress attempts of a file have failed, add_backup runs
\* neither split nor encryption for it.
C4_RetryExhaustionFatal ==
    pc \in {"split", "bysize", "prepare", "encrypt"} =>
        Ev("compress_exhausted", Cur, file_list[idx]) \notin hist

\* C5: when the first run is over, add_backup has been called for every file
\* of every existing source root.
C5_BatchContinuation ==
    (pc = "idle" /\ run = 1) =>
        \A r \in Roots : \A n \in DOMAIN srcFiles[r] :
            <<"add_backup", r, n, 1>> \in hist

\* C6: every record of a manifest is of a file whose add_backup has run to
\* its end.
C6_ManifestOnlySuccessful ==
    \A r \in Roots : \A i \in DOMAIN manifest[r] :
        Happened("finished", r, manifest[r][i].RelativePath)

\* C7: when a run is over, add_backup has been called in it for every file
\* of every diff set the run computed.
C7_DiffFilesBackedUp ==
    (pc = "idle" /\ run >= 1) =>
        \A r \in Roots :
            <<"diff", r, <<>>, run>> \in hist =>
                \A i \in DOMAIN diff_files[r] :
                    <<"add_backup", r, diff_files[r][i].RelativePath, run>> \in hist

\* C8: a scanned record is in the diff set exactly when the manifest has no
\* record of its RelativePath, or has one with another Hash or another
\* Length; the modification and touch times do not count.
C8_DiffClassification ==
    \A r \in Roots : \A i \in DOMAIN scanned[r] :
        LET info == scanned[r][i]
            known == {j \in DOMAIN manifest[r] :
                         manifest[r][j].RelativePath = info.RelativePath}
        IN InSeq(info, diff_files[r]) <=>
               \/ known = {}
               \/ \E j \in known : \/ manifest[r][j].Hash # info.Hash
                                   \/ manifest[r][j].Length # info.Length

\* C8 witness: a diff set that holds a file, computed over a scan with a
\* file whose modification time is not the manifest's and which is left out.
C8_Witness ==
    \E r \in Roots :
        /\ diff_files[r] # <<>>
        /\ \E i \in DOMAIN scanned[r] : \E j \in DOMAIN manifest[r] :
              /\ manifest[r][j].RelativePath = scanned[r][i].RelativePath
              /\ manifest[r][j].Hash = scanned[r][i].Hash
              /\ manifest[r][j].LastModificationTime # scanned[r][i].LastModificationTime
              /\ manifest[r][j].LastTouchTime # scanned[r][i].LastTouchTime
              /\ ~InSeq(scanned[r][i], diff_files[r])

\* C9: a diff set computed while the tree is as the initial backup scanned it
\* is empty.
C9_RescanEmpty ==
    \A r \in Roots :
        (edits = 0 /\ Happened("initial_backup", r, <<>>) /\ Happened("diff", r, <<>>))
            => diff_files[r] = <<>>

\* C10: when a run with an initial backup of a root is over, the manifest
\* holds one record for each file of the root, in walk order, and add_backup
\* has been called for each.
C10_FirstRunFullBackup ==
    \A r \in Roots :
        (pc = "idle" /\ edits = 0 /\ Happened("initial_backup", r, <<>>)) =>
            /\ Paths(manifest[r]) = collect_file_paths(r, manifest_file)
            /\ \A n \in DOMAIN srcFiles[r] : Happened("add_backup", r, n)

\* The envelopes of all destination roots, as pairs <<root, path>>.
Envelopes ==
    {rp \in UNION {{<<r, p>> : p \in DOMAIN dst[r]} : r \in Roots} :
        /\ dst[rp[1]][rp[2]].layers # <<>>
        /\ Last(dst[rp[1]][rp[2]].layers) = "enc"}

\* C13: once an iteration count is stored, every envelope written so far, of
\* whatever file, root and run, holds the stored count: no later call has
\* measured another one.
C13_CalibrationReused ==
    \A rp \in Envelopes :
        /\ iterations_file # <<>>
        /\ dst[rp[1]][rp[2]].kdf = iterations_file[1]

\* C13 witness: the stored count is one that took two timer readings, and
\* there are envelopes of two roots.
C13_Witness ==
    /\ iterations_file = <<optimal_iterations(<<0, 50000>>, first_test_iterations)>>
    /\ \E rp \in Envelopes : rp[1] = "r1"
    /\ \E rp \in Envelopes : rp[1] = "r2"

RECURSIVE SumSizes(_)
SumSizes(chunks) ==
    IF chunks = <<>> THEN 0 ELSE Size(Head(chunks)) + SumSizes(Tail(chunks))

\* The bytes the chunks give when they are concatenated in this order: the
\* content that was split when they are its chunks 1..n in order and their
\* sizes add up to its size, other bytes otherwise.
Concat(chunks) ==
    IF /\ chunks # <<>>
       /\ \A i \in DOMAIN chunks :
             /\ chunks[i].layers # <<>>
             /\ Last(chunks[i].layers) = "part"
             /\ chunks[i].part = <<i, Len(chunks)>>
             /\ chunks[i].data = chunks[1].data
             /\ Front(chunks[i].layers) = Front(chunks[1].layers)
             /\ Front(chunks[i].lens) = Front(chunks[1].lens)
             /\ chunks[i].kdf = chunks[1].kdf
       /\ SumSizes(chunks) = Last(Front(chunks[1].lens))
    THEN [data |-> chunks[1].data, layers |-> Front(chunks[1].layers),
          lens |-> Front(chunks[1].lens), part |-> <<0, 0>>,
          kdf |-> chunks[1].kdf]
    ELSE Raw(BadData, 0)

\* C14: when split_current_file returns the split manifest of an artifact of
\* size S above the threshold T, the manifest lists n chunks with
\* (n-1)*T < S <= n*T, all of them are there, every chunk but the last has
\* size T, the last has size S - (n-1)*T, and concatenated in the listed order
\* they give the artifact's bytes.
C14_SplitReconstruction ==
    [][(pc = "bysize" /\ pc' = "prepare") =>
          LET orig == dst[Cur][cwf]
              S == Size(orig)
              T == SplitLimit
              man == dst'[Cur][cwf']
              n == man.part[2]
              listed == Front(ManList(cwf', man, n))
          IN /\ S > T
             /\ (n - 1) * T < S /\ S <= n * T
             /\ \A i \in 1..n :
                   /\ listed[i] \in DOMAIN dst'[Cur]
                   /\ Size(dst'[Cur][listed[i]]) = IF i < n THEN T ELSE S - (n - 1) * T
             /\ Concat([i \in 1..n |-> dst'[Cur][listed[i]]]) = orig]_vars

\* C14 witness: the split of an artifact of 9 GiB has returned: a split
\* manifest that lists 3 chunks, of 4, 4 and 1 GiB.
C14_Witness ==
    /\ pc = "prepare"
    /\ cwf \in DOMAIN dst[Cur]
    /\ dst[Cur][cwf].data = ManData
    /\ dst[Cur][cwf].part[2] = 3
    /\ \A i \in 1..3 :
          /\ ChunkPath(Front(cwf), i) \in DOMAIN dst[Cur]
          /\ Size(dst[Cur][ChunkPath(Front(cwf), i)]) = <<4 * GiB, 4 * GiB, GiB>>[i]

\* C16: a call of encrypt_current_file for a file that is there writes the
\* envelope and removes the file exactly when the file is at most 1 GiB or
\* the envelope decrypts to bytes of the file's hash.
C16_CipherDeletion ==
    [][(pc = "encrypt" /\ enc_list # <<>> /\ Head(enc_list) \in DOMAIN dst[Cur]) =>
          LET f == Head(enc_list)
              plain == dst[Cur][f]
              e == Append(f, "enc")
          IN /\ e \in DOMAIN dst'[Cur]
             /\ (f \notin DOMAIN dst'[Cur]) <=>
                   \/ Size(plain) <= 1 * GiB
                   \/ Digest(Decrypt(dst'[Cur][e])) = Digest(plain)]_vars

\* C16 witness: a file above 1 GiB is kept next to its envelope, which does
\* not decrypt to its bytes, and the call has returned.
C16_Witness ==
    \E f \in DOMAIN dst["r1"] :
        /\ Append(f, "enc") \in DOMAIN dst["r1"]
        /\ Size(dst["r1"][f]) > 1 * GiB
        /\ Digest(Decrypt(dst["r1"][Append(f, "enc")])) # Digest(dst["r1"][f])
        /\ pc = "encrypt"
        /\ ~InSeq(f, enc_list)

\* Whether compress_current_file tried to compress file n: its .xz is there,
\* or all attempts are used up.
CompressTried(n) ==
    \/ Append(n, "xz") \in DOMAIN dst[Cur]
    \/ Ev("compress_exhausted", Cur, n) \in hist

\* Whether the copy of file n is as it was and nothing else is there.
CopyUntouched(n) ==
    /\ DOMAIN dst[Cur] = {n}
    /\ dst[Cur][n] = SrcBytes(Cur, n)
    /\ cwf = n

\* C17 as claimed: when compress_current_file has returned, the file was
\* compressed exactly when its length is at least 120 and its extension is
\* not in the set or it has none; otherwise the copy is untouched.
C17_CompressSkipPolicy ==
    pc = "split" =>
        LET n == file_info.RelativePath
            policy == /\ file_info.Length >= 120
                      /\ (splitext(n) \notin file_not_compress \/ splitext(n) = "")
        IN /\ CompressTried(n) <=> policy
           /\ ~policy => CopyUntouched(n)

\* C17 amended: the same with a name that starts with a dot counted as a
\* name with no extension.
C17_CompressSkipPolicyDot ==
    pc = "split" =>
        LET n == file_info.RelativePath
            policy == /\ file_info.Length >= 120
                      /\ \/ splitext(n) \notin file_not_compress
                         \/ splitext(n) = ""
                         \/ n[1] = ""
        IN /\ CompressTried(n) <=> policy
           /\ ~policy => CopyUntouched(n)

\* C17 witness: compress_current_file has returned the .xz of a file of 120
\* bytes whose name starts with a dot and ends in .jpg.
C17_Witness ==
    /\ pc = "split"
    /\ file_info.RelativePath = <<"", "h", "jpg">>
    /\ file_info.Length = 120
    /\ cwf = <<"", "h", "jpg", "xz">>
    /\ DOMAIN dst[Cur] = {cwf}

\* Whether every chunk of artifact p and its split manifest are there: the
\* manifest lists n chunks, chunk i of n is there for each i, and the sizes
\* of the chunks add up to the artifact's size.
AllSplit(p) ==
    /\ ManPath(p) \in DOMAIN dst[Cur]
    /\ LET n == dst[Cur][ManPath(p)].part[2]
       IN /\ n >= 1
          /\ \A i \in 1..n :
                /\ ChunkPath(p, i) \in DOMAIN dst[Cur]
                /\ dst[Cur][ChunkPath(p, i)].part = <<i, n>>
          /\ ChunkPath(p, 1) \in DOMAIN dst[Cur] =>
                SumSizes([i \in 1..n |-> dst[Cur][ChunkPath(p, i)]])
                    = Last(Front(dst[Cur][ChunkPath(p, 1)].lens))

\* C18: while split_current_file splits an artifact, and when it has returned
\* the split manifest, the artifact is there or all of its chunks and the
\* split manifest are.
C18_SplitOrdering ==
    LET p == IF pc = "bysize" THEN cwf ELSE Front(cwf)
    IN (\/ pc = "bysize"
        \/ /\ pc = "prepare"
           /\ cwf \in DOMAIN dst[Cur]
           /\ dst[Cur][cwf].data = ManData)
          => (p \in DOMAIN dst[Cur] \/ AllSplit(p))

\* C18 witness: split_current_file has returned; the artifact is gone and its
\* three chunks and the split manifest are there.
C18_Witness ==
    /\ pc = "prepare"
    /\ cwf \in DOMAIN dst[Cur]
    /\ dst[Cur][cwf].data = ManData
    /\ Front(cwf) \notin DOMAIN dst[Cur]
    /\ dst[Cur][cwf].part[2] = 3
    /\ AllSplit(Front(cwf))

\* C19: split_current_file called for an artifact of at most 4 GiB leaves
\* every file as it is and returns the path it was given.
C19_SplitNoOp ==
    [][(pc = "split" /\ cwf \in DOMAIN dst[Cur] /\ Size(dst[Cur][cwf]) <= 4 * GiB) =>
          /\ dst' = dst
          /\ cwf' = cwf
          /\ pc' = "prepare"]_vars

\* C19 witness: split_current_file has returned for an artifact of exactly
\* 4 GiB, which is the only file there.
C19_Witness ==
    /\ pc = "prepare"
    /\ cwf \in DOMAIN dst[Cur]
    /\ Size(dst[Cur][cwf]) = 4 * GiB
    /\ DOMAIN dst[Cur] = {cwf}

\* C20: prepare_files_for_encryption hands to encrypt_current_file, for a
\* split manifest that lists n chunks, the n chunks in listed order and then
\* the manifest; for any other artifact, the artifact alone.
C20_CipherOverSplit ==
    [][pc = "prepare" =>
          LET c == dst[Cur][cwf]
          IN enc_list' = IF c.data = ManData
                         THEN [i \in 1..c.part[2] |-> ChunkPath(Front(cwf), i)] \o <<cwf>>
                         ELSE <<cwf>>]_vars

Stored == dst[Cur][cwf]
Original == file_info.Hash[2].bytes
Produced ==
    envelope(Original, b64decode(Stored.salt), b64decode(Stored.nonce),
             Stored.iterations)
Decrypting == pc \in {"decrypted", "ValueError", "binascii.Error"}
Output == decrypted_file_path(cwf)

\* C11: decrypt_current_file called for the envelope as encrypt_current_file
\* wrote it raises nothing and writes a file that holds exactly the bytes
\* that were encrypted.
C11_RoundTrip ==
    (Decrypting /\ Stored = Produced) =>
        /\ pc = "decrypted"
        /\ Output \in DOMAIN dst[Cur]
        /\ dst[Cur][Output] = Bytes(Original)

\* C11 witness: an envelope that holds the count of one timer reading, as it
\* was written, has been decrypted to the two bytes that were encrypted.
C11_Witness ==
    /\ pc = "decrypted"
    /\ Stored = Produced
    /\ Stored.iterations = optimal_iterations(<<1000>>, first_test_iterations)
    /\ Original = <<0, 1>>
    /\ dst[Cur][Output] = Bytes(<<0, 1>>)

\* C12 as claimed: decrypt_current_file called for an envelope whose
\* ciphertext or tag field is not the one encryption wrote ends with the
\* authentication error and writes no output file.
C12_DecryptFailsClosed ==
    (Decrypting /\ (Stored.ciphertext # Produced.ciphertext \/ Stored.tag # Produced.tag)) =>
        /\ pc = "ValueError"
        /\ Output \notin DOMAIN dst[Cur]

\* Whether field k of the stored envelope is no base64, or is read as other
\* bytes than the ones encryption wrote.
BytesChanged(k) ==
    \/ ~b64decodes(Stored[k])
    \/ b64decode(Stored[k]) # b64decode(Produced[k])

\* C12 amended: decrypt_current_file called for an envelope whose ciphertext
\* or tag field is no base64 or is read as other bytes than encryption wrote
\* raises and writes no output file, with the authentication error when all
\* fields are read; whenever it writes an output file, the file holds the
\* bytes that were encrypted.
C12_DecryptFailsClosedBytes ==
    Decrypting =>
        /\ (BytesChanged("ciphertext") \/ BytesChanged("tag")) =>
              /\ pc \in {"ValueError", "binascii.Error"}
              /\ envelope_decodes(Stored) => pc = "ValueError"
              /\ Output \notin DOMAIN dst[Cur]
        /\ pc = "decrypted" => dst[Cur][Output] = Bytes(Original)

\* C12 witness: the tag field was changed to the text of other bytes, and
\* decrypt_current_file has ended with the authentication error and no
\* output file.
C12_Witness ==
    /\ pc = "ValueError"
    /\ b64decodes(Stored.tag)
    /\ b64decode(Stored.tag) # b64decode(Produced.tag)
    /\ Stored.ciphertext = Produced.ciphertext
    /\ DOMAIN dst[Cur] = {cwf}
\* C21: when no calibration is on record, get_optimal_iterations starts from
\* 1000 trial iterations, doubles the trial count at every reading of 0 and
\* at no other, leaves the loop only with a reading other than 0, and stores
\* trial * 25 / measured ms without its fraction, for the trial count of
\* that last reading; the divisor is never 0.
C21_CalibrationMeasurement ==
    [][/\ (pc = "get_optimal_iterations" /\ iterations_file = <<>>) =>
           /\ pc' = "while"
           /\ test_iterations' = 1000
       /\ (pc = "while" /\ pc' = "while") =>
           /\ elapsed_time_ms' = 0 => test_iterations' = 2 * test_iterations
           /\ elapsed_time_ms' # 0 => test_iterations' = test_iterations
       /\ (pc = "while" /\ pc' # "while") =>
           /\ elapsed_time_ms # 0
           /\ test_iterations' = test_iterations
           /\ LET a == test_iterations * 25 * 1000
                  e == elapsed_time_ms
                  v == iterations_file'[1]
              IN IF e > 0
                 THEN v * e <= a /\ a < (v + 1) * e
                 ELSE v <= 0 /\ (-v) * (-e) <= a /\ a < (1 - v) * (-e)
      ]_vars

\* A calibration that doubled the trial count twice is stored.
C21_Witness ==
    /\ pc = "derive"
    /\ test_iterations = 4 * first_test_iterations
    /\ elapsed_time_ms = 7000
    /\ iterations_file = <<14285>>

\* C27: every count get_optimal_iterations computes, stores and returns is
\* at least 1, and the key derivation of encrypt_current_file is not called
\* with a count below 1.
C27_IterationsUsable ==
    /\ iterations_file # <<>> => iterations_file[1] >= 1
    /\ pc # "ValueError"

\* C22: for a job whose source root does not exist initial_backup returns
\* before any effect: the destination root is not created and holds no
\* file, no manifest is written, and nothing of the job has happened, no
\* stage of the pipeline is at work for it.
C22_MissingSourceRoot ==
    \A r \in Roots :
        ~srcExists[r] =>
            /\ ~dstExists[r]
            /\ dst[r] = <<>>
            /\ ~manifestExists[r]
            /\ manifest[r] = <<>>
            /\ \A h \in hist : h[2] # r
            /\ pc \notin {"idle", "row"} => Cur # r

\* compare_files is past the row of a job whose source root does not exist.
C22_Witness ==
    /\ ~srcExists["r2"]
    /\ pc = "row"
    /\ row = Len(Jobs) + 1
    /\ Jobs[Len(Jobs)] = "r2"

\* The bytes of the source file add_backup is at work for.
CurBytes == SrcBytes(Cur, file_list[idx])

\* What C23 says of one step of copy_current_file or compress_current_file.
RetryStep ==
    /\ (pc = "copy" /\ pc' = "copy") =>
           (attempt' = attempt + 1 /\ dst'[Cur][cwf] # CurBytes)
    /\ (pc = "copy" /\ cwf \in DOMAIN dst'[Cur] /\ dst'[Cur][cwf] = CurBytes) =>
           pc' = "compress"
    /\ (pc = "compress" /\ pc' = "compress") =>
           /\ attempt' = attempt + 1
           /\ Append(cwf, "xz") \in DOMAIN dst'[Cur]
                  => dst'[Cur][Append(cwf, "xz")].data = BadData

\* C23: copy_current_file makes at most 4 copy attempts and stops at the
\* first whose copy has the source's bytes; compress_current_file makes at
\* most 4 compress attempts, and an attempt after which it goes on has not
\* left a good .xz; add_backup, once called, returns or raises whatever the
\* attempts give.
C23_BoundedRetries ==
    /\ [](pc \in {"copy", "compress"} => attempt \in 0..4)
    /\ [][RetryStep]_vars
    /\ (pc = "add_backup") ~> (pc \in {"file", "idle"})

\* add_backup has returned for a file whose compression used up its
\* attempts.
C23_Witness ==
    /\ pc = "file"
    /\ idx = 2
    /\ Happened("compress_exhausted", "r1", file_list[1])
    /\ Happened("finished", "r1", file_list[1])

\* The envelopes of the pipeline of source file n hold n's bytes, or bytes
\* that a failed stage left.
OwnEnvelope(r, n) ==
    \E p \in EnvelopePaths(n) \cap DOMAIN dst[r] :
        /\ dst[r][p].layers # <<>>
        /\ Last(dst[r][p].layers) = "enc"
        /\ dst[r][p].data \in {srcFiles[r][n].data, BadData}

\* C26: once the loop of initial_backup is over, every file of the source
\* root has gone through its pipeline (the destination-exists check has
\* skipped none) and has its own envelope.
C26_NoArtifactCollision ==
    (pc = "row" /\ row = 2) =>
        \A n \in DOMAIN srcFiles["r1"] :
            /\ Happened("finished", "r1", n)
            /\ OwnEnvelope("r1", n)

\* C24: calculate_hash returns a digest only for a file it has opened and
\* read and an algorithm hashlib has; for a file it cannot open it returns
\* no digest, the digest of no bytes least of all.
C24_HashErrorsSurfaced ==
    pc = "returned" =>
        /\ cwf \in DOMAIN dst[Cur]
        /\ algorithm \in algorithms_available
        /\ copied_hash = Digest(dst[Cur][cwf])

\* C25: no step of add_backup deletes, renames or rewrites a file under
\* the source root or writes a file there: the source tree and the manifest
\* are as they were, and what the stages write and remove is under the
\* destination root.
C25_SourceUntouched ==
    [][/\ srcFiles' = srcFiles
       /\ srcExists' = srcExists
       /\ manifest' = manifest
       /\ manifestExists' = manifestExists]_vars

====
